---- MODULE Spec2Model ----
(***************************************************************************)
(* Model of src/app.py: the user-based recommendation tab (tab1), the     *)
(* "add new user" tab (tab2), the cached data pipeline (load_data_fresh,  *)
(* get_updated_data) and the catalog matcher (find_best_match).           *)
(*                                                                         *)
(* Strings are sequences of one-character strings, so that str.strip(),   *)
(* str.lower() and the '|' split of str.get_dummies are computed, not     *)
(* assumed.  Cosine similarities are floats in the program; the model     *)
(* keeps them as fixed-point integers, floor(SCALE * cos).                *)
(***************************************************************************)
EXTENDS Integers, Sequences, FiniteSets, TLC

VARIABLES users, cache, product_choices, req, usersBefore, df, outcome,
          top5, render, prod_name, query, scores, best_match

vars == <<users, cache, product_choices, req, usersBefore, df, outcome,
          top5, render, prod_name, query, scores, best_match>>

engineVars == <<users, cache, req, usersBefore, df, outcome, top5, render>>

matchVars == <<prod_name, query, scores, best_match>>

(***************************************************************************)
(* Bounds and program constants                                            *)
(***************************************************************************)
MaxUsers == 4

MaxCatalog == 2

SCALE == 100

TopN == 5

Threshold == 70

MaxScore == 100

(***************************************************************************)
(* Strings                                                                 *)
(***************************************************************************)
Range(s) == {s[i] : i \in 1..Len(s)}

IsSpace(c) == c = " "

RECURSIVE LStrip(_)
LStrip(s) == IF s # <<>> /\ IsSpace(Head(s)) THEN LStrip(Tail(s)) ELSE s

RECURSIVE RStrip(_)
RStrip(s) == IF s # <<>> /\ IsSpace(s[Len(s)])
             THEN RStrip(SubSeq(s, 1, Len(s) - 1)) ELSE s

Strip(s) == RStrip(LStrip(s))

LowerChar(c) == CASE c = "X" -> "x"
                  [] c = "Y" -> "y"
                  [] OTHER -> c

Lower(s) == [i \in 1..Len(s) |-> LowerChar(s[i])]

\* str.split(sep): the pieces between the separators, empty pieces kept
RECURSIVE SplitFrom(_, _, _)
SplitFrom(s, sep, cur) ==
    IF s = <<>> THEN <<cur>>
    ELSE IF Head(s) = sep THEN <<cur>> \o SplitFrom(Tail(s), sep, <<>>)
    ELSE SplitFrom(Tail(s), sep, Append(cur, Head(s)))

Split(s, sep) == SplitFrom(s, sep, <<>>)

\* the tags of one cell of Series.str.get_dummies: its pieces minus ""
Tags(s) == Range(Split(s, "|")) \ {<<>>}

(***************************************************************************)
(* Data pipeline                                                           *)
(***************************************************************************)
NoData == <<"no data">>

\* st.cache_data on load_data_fresh: the cached frame when there is one,
\* otherwise the users table as read by SELECT * FROM users
load_data_fresh(table, cached) == IF cached # NoData THEN cached ELSE table

\* st.cache_data.clear()
cache_data_kept == cache

cache_data_clear == NoData

\* SELECT COUNT(*) FROM users WHERE userID=? ... > 0
UserExistsNever(table, u) == FALSE

UserExists(table, u) == \E i \in 1..Len(table) : table[i].userID = u

\* userID TEXT PRIMARY KEY: an INSERT of a userID the table has is refused
PrimaryKeyTaken(table, u) == \E i \in 1..Len(table) : table[i].userID = u

\* new_user_id.strip() == "" or new_user_purchases.strip() == ""
MissingIdOnly(u, p) == Strip(u) = <<>>

MissingInput(u, p) == Strip(u) = <<>> \/ Strip(p) = <<>>

\* df.set_index('userID')['previousPurchases'].str.get_dummies(sep='|')
get_dummies_old_columns(frame) ==
    LET old == UNION {Tags(frame[i].previousPurchases) : i \in 1..(Len(frame) - 1)}
    IN  [index   |-> [i \in 1..Len(frame) |-> frame[i].userID],
         columns |-> old,
         ones    |-> [i \in 1..Len(frame) |-> Tags(frame[i].previousPurchases) \cap old]]

get_dummies(frame) ==
    [index   |-> [i \in 1..Len(frame) |-> frame[i].userID],
     columns |-> UNION {Tags(frame[i].previousPurchases) : i \in 1..Len(frame)},
     ones    |-> [i \in 1..Len(frame) |-> Tags(frame[i].previousPurchases)]]

InIndex(pm, u) == \E i \in 1..Len(pm.index) : pm.index[i] = u

\* purchase_matrix.loc[u] of a user u of the index: its row position
Loc(pm, u) == CHOOSE i \in 1..Len(pm.index) : pm.index[i] = u

\* cosine_similarity of two binary rows, floor(SCALE * dot / (|a| * |b|));
\* sklearn leaves an all-zero row unnormalised, so its similarities are 0
Cosine(a, b) ==
    LET dot == Cardinality(a \cap b)
        na  == Cardinality(a)
        nb  == Cardinality(b)
    IN  IF na = 0 \/ nb = 0 THEN 0
        ELSE CHOOSE r \in 0..SCALE :
               /\ r * r * na * nb <= SCALE * SCALE * dot * dot
               /\ (r + 1) * (r + 1) * na * nb > SCALE * SCALE * dot * dot

\* sim_df[u][v] by row positions
sim_df(pm, p, q) == Cosine(pm.ones[p], pm.ones[q])

\* sim_scores = sim_df[u].drop(u); sim_scores[sim_scores > 0]: the series
\* of (row position, similarity) entries that remain
sim_scores(pm, p) ==
    {e \in {[pos |-> q, sim |-> sim_df(pm, p, q)] : q \in (1..Len(pm.index)) \ {p}} :
        e.sim > 0}

RECURSIVE Dot(_, _, _)
Dot(pm, S, item) ==
    IF S = {} THEN 0
    ELSE LET e == CHOOSE x \in S : TRUE
         IN  (IF item \in pm.ones[e.pos] THEN e.sim ELSE 0)
             + Dot(pm, S \ {e}, item)

\* purchase_matrix.loc[sim_scores.index].T.dot(sim_scores), one column
weighted_scores_unweighted(pm, nb, item) ==
    Cardinality({e \in nb : item \in pm.ones[e.pos]})

weighted_scores(pm, nb, item) == Dot(pm, nb, item)

\* weighted_scores[user_vector == 0]: the columns the user has a 0 in
new_scores_unfiltered(pm, p) == pm.columns

new_scores(pm, p) == pm.columns \ pm.ones[p]

\* purchase_matrix.sum(), one column
column_sum(pm, item) == Cardinality({i \in 1..Len(pm.index) : item \in pm.ones[i]})

\* sort_values(ascending=False): the entries that may come first; the
\* default sort kind is not stable, so equal scores come out in any order
FirstAscending(S) == {m \in S : \A o \in S : m.score <= o.score}

First(S) == {m \in S : \A o \in S : o.score <= m.score}

\* .head(n) of the sorted series S of (item, score) entries
RECURSIVE SortedHead(_, _)
SortedHead(S, n) ==
    IF n = 0 \/ S = {} THEN {<<>>}
    ELSE UNION {{<<m>> \o t : t \in SortedHead(S \ {m}, n - 1)} : m \in First(S)}

\* new_scores.sort_values(ascending=False).head(5)
TopScored(pm, p) ==
    LET nb == sim_scores(pm, p)
    IN  SortedHead({[item |-> c, score |-> weighted_scores(pm, nb, c)] :
                        c \in new_scores(pm, p)}, TopN)

\* purchase_matrix.sum().sort_values(ascending=False).head(5)
TopPopular(pm) ==
    SortedHead({[item |-> c, score |-> column_sum(pm, c)] : c \in pm.columns},
               TopN)

\* the display loop calls find_best_match for every product; extractOne on
\* an empty choice list returns None and the tuple unpacking raises
Render(result) == IF result = <<>> THEN "nothing"
                  ELSE IF product_choices = <<>> THEN "TypeError"
                  ELSE "shown"

(***************************************************************************)
(* Inputs                                                                  *)
(***************************************************************************)
Row(u, p) == [userID |-> u, previousPurchases |-> p]

\* the store {A:"x|y", B:"y|z", C:"x|y|z"}
StoreABC == << Row(<<"A">>, <<"x","|","y">>),
               Row(<<"B">>, <<"y","|","z">>),
               Row(<<"C">>, <<"x","|","y","|","z">>) >>

InitStores ==
    { StoreABC,
      << Row(<<"A">>, <<"x">>),
         Row(<<"B">>, <<"x","|","y","|","z","|","u">>),
         Row(<<"C">>, <<"x","|","y","|","z","|","v","|","w","|","t">>),
         Row(<<"D">>, <<"x","|","y","|","v">>) >> }

IdInputs == { <<>>, <<" ">>, <<"A">>, <<" ","A">>, <<"D">>, <<" ","D">>, <<"E">> }

UserInputs == { <<"A">>, <<"B">>, <<"C">>, <<"D">>, <<"E">>, <<" ","A">>, <<"Z">> }

PurchaseInputs ==
    { <<>>, <<" ">>, <<"|">>, <<"q">>, <<" ","x","|","q">>, <<"z"," ">> }

Keys == { <<"x">>, <<"y"," ","1">> }

RECURSIVE SeqsUpTo(_, _)
SeqsUpTo(S, n) ==
    IF n = 0 THEN {<<>>}
    ELSE LET shorter == SeqsUpTo(S, n - 1)
         IN  shorter \cup {Append(s, k) : s \in shorter, k \in S}

Catalogs == SeqsUpTo(Keys, MaxCatalog)

ProdNames == { <<"x">>, <<" ","X">>, <<"q">> }

ScoreVals == {0, Threshold - 1, Threshold, MaxScore}

Pending == [result |-> "pending", key |-> <<>>]

NoReq == [kind |-> "none", user |-> <<>>, purchases |-> <<>>]

(***************************************************************************)
(* Initial state: the database as found, nothing cached, no request yet   *)
(***************************************************************************)
Init ==
    /\ users \in InitStores
    /\ cache = NoData
    /\ product_choices \in {<<>>, << <<"x">> >>}
    /\ req = NoReq
    /\ usersBefore = users
    /\ df = NoData
    /\ outcome = "none"
    /\ top5 = <<>>
    /\ render = "nothing"
    /\ prod_name = <<>>
    /\ query = <<>>
    /\ scores = <<>>
    /\ best_match = Pending

(***************************************************************************)
(* tab1: user-based recommendation for custom_user_input                   *)
(***************************************************************************)
Recommend(custom_user_input) ==
    LET frame == load_data_fresh(users, cache)
        pm    == get_dummies(frame)
    IN  /\ req' = [kind |-> "recommend", user |-> custom_user_input,
                   purchases |-> <<>>]
        /\ usersBefore' = users
        /\ cache' = frame
        /\ df' = frame
        /\ users' = users
        /\ IF ~InIndex(pm, custom_user_input)
           THEN /\ outcome' = "not_found"
                /\ top5' = <<>>
           ELSE LET p == Loc(pm, custom_user_input)
                IN  IF sim_scores(pm, p) = {}
                    THEN /\ outcome' = "no_similar"
                         /\ top5' = <<>>
                    ELSE /\ outcome' = "scored"
                         /\ top5' \in TopScored(pm, p)
        /\ render' = Render(top5')
        /\ UNCHANGED <<product_choices, matchVars>>

(***************************************************************************)
(* tab2: the "Add User and Generate Recommendations" button                *)
(***************************************************************************)
Register(new_user_id, new_user_purchases) ==
    LET row   == Row(Strip(new_user_id), Strip(new_user_purchases))
        table == Append(users, row)
        frame == load_data_fresh(table, cache_data_clear)
        pm    == get_dummies(frame)
    IN  /\ req' = [kind |-> "register", user |-> new_user_id,
                   purchases |-> new_user_purchases]
        /\ usersBefore' = users
        /\ IF MissingInput(new_user_id, new_user_purchases)
           THEN /\ outcome' = "warn_missing"
                /\ top5' = <<>>
                /\ UNCHANGED <<users, cache, df>>
           ELSE IF UserExists(users, new_user_id)
           THEN /\ outcome' = "warn_exists"
                /\ top5' = <<>>
                /\ UNCHANGED <<users, cache, df>>
           ELSE IF PrimaryKeyTaken(users, row.userID)
           THEN \* the INSERT raises, nothing is committed
                /\ outcome' = "IntegrityError"
                /\ top5' = <<>>
                /\ UNCHANGED <<users, cache, df>>
           ELSE /\ Len(users) < MaxUsers
                /\ users' = table
                /\ cache' = frame
                /\ df' = frame
                /\ IF ~InIndex(pm, new_user_id)
                   THEN \* sim_df[new_user_id] raises
                        /\ outcome' = "KeyError"
                        /\ top5' = <<>>
                   ELSE LET p == Loc(pm, new_user_id)
                        IN  IF sim_scores(pm, p) = {}
                            THEN /\ outcome' = "fallback"
                                 /\ top5' \in TopPopular(pm)
                            ELSE /\ outcome' = "scored"
                                 /\ top5' \in TopScored(pm, p)
        /\ render' = Render(top5')
        /\ UNCHANGED <<product_choices, matchVars>>

Next ==
    \/ \E u \in UserInputs : Recommend(u)
    \/ \E u \in IdInputs, p \in PurchaseInputs : Register(u, p)

Spec == Init /\ [][Next]_vars

(***************************************************************************)
(* find_best_match, applied to one product name and one catalog.  The     *)
(* fuzzywuzzy scorer is a library outside the repository: its score for   *)
(* each catalog key is an input.                                           *)
(***************************************************************************)
\* process.extractOne: max(..., key=score) keeps the first of equal maxima
ExtractOne(choices, sc) ==
    IF choices = <<>> THEN 0
    ELSE CHOOSE i \in 1..Len(choices) :
            /\ \A j \in 1..Len(choices) : sc[j] <= sc[i]
            /\ \A j \in 1..(i - 1) : sc[j] < sc[i]

FindBestMatch(name, wratio) ==
    LET sc == [i \in 1..Len(product_choices) |-> wratio[product_choices[i]]]
        i  == ExtractOne(product_choices, sc)
    IN  /\ prod_name' = name
        /\ query' = Strip(Lower(name))
        /\ scores' = sc
        /\ best_match' =
              IF i = 0 THEN [result |-> "TypeError", key |-> <<>>]
              ELSE IF sc[i] >= Threshold
              THEN [result |-> "match", key |-> product_choices[i]]
              ELSE [result |-> "None", key |-> <<>>]
        /\ UNCHANGED <<product_choices, engineVars>>

InitMatch ==
    /\ users \in InitStores
    /\ cache = NoData
    /\ product_choices \in Catalogs
    /\ req = NoReq
    /\ usersBefore = users
    /\ df = NoData
    /\ outcome = "none"
    /\ top5 = <<>>
    /\ render = "nothing"
    /\ prod_name = <<>>
    /\ query = <<>>
    /\ scores = <<>>
    /\ best_match = Pending

NextMatch == \E name \in ProdNames, wratio \in [Keys -> ScoreVals] :
                FindBestMatch(name, wratio)

SpecMatch == InitMatch /\ [][NextMatch]_vars

(***************************************************************************)
(* What a request is observed to have done                                 *)
(***************************************************************************)
Items(r) == {r[i].item : i \in 1..Len(r)}

Columns(table) == UNION {Tags(table[i].previousPurchases) : i \in 1..Len(table)}

InitVocabulary == UNION {Columns(s) : s \in InitStores}

Known(table, u) == \E i \in 1..Len(table) : table[i].userID = u

PurchaseSet(table, u) ==
    UNION {Tags(table[i].previousPurchases) :
              i \in {j \in 1..Len(table) : table[j].userID = u}}

Count(table, c) ==
    Cardinality({i \in 1..Len(table) : c \in Tags(table[i].previousPurchases)})

NonIncreasing(r) == \A i \in 1..(Len(r) - 1) : r[i].score >= r[i + 1].score

Rejected == outcome \in {"warn_missing", "warn_exists"}

Accepted == outcome \in {"scored", "fallback"}

Inserted == /\ Len(users) = Len(usersBefore) + 1
            /\ SubSeq(users, 1, Len(usersBefore)) = usersBefore

RECURSIVE ExpectedFrom(_, _, _, _)
ExpectedFrom(table, u, c, i) ==
    IF i = 0 THEN 0
    ELSE LET s == Cosine(PurchaseSet(table, u), Tags(table[i].previousPurchases))
         IN  (IF table[i].userID # u /\ s > 0 /\ c \in Tags(table[i].previousPurchases)
              THEN s ELSE 0)
             + ExpectedFrom(table, u, c, i - 1)

\* sum over the users with strictly positive similarity to u of that
\* similarity times the user's purchase indicator for c
ExpectedScore(table, u, c) == ExpectedFrom(table, u, c, Len(table))

IsPopularityTop(table, r) ==
    /\ Len(r) = IF Cardinality(Columns(table)) < 5
                THEN Cardinality(Columns(table)) ELSE 5
    /\ \A i \in 1..Len(r) : /\ r[i].item \in Columns(table)
                           /\ r[i].score = Count(table, r[i].item)
    /\ \A i, j \in 1..Len(r) : i # j => r[i].item # r[j].item
    /\ NonIncreasing(r)
    /\ \A c \in Columns(table) \ Items(r) : Count(table, c) <= r[Len(r)].score

(***************************************************************************)
(* Properties                                                              *)
(***************************************************************************)
\* C1: the result of recommend(u), for a userID u of the Interaction
\* Matrix, contains no item of u's own purchase set.
C1_RecommendExcludesOwned ==
    req.kind = "recommend" =>
        Items(top5) \cap PurchaseSet(users, req.user) = {}

C1_Witness ==
    /\ req.kind = "recommend"
    /\ outcome = "scored"
    /\ top5 # <<>>
    /\ PurchaseSet(users, req.user) # {}

\* C2: every result list of recommend and of registerAndRecommend, scored
\* or popularity fallback, has at most 5 entries and non-increasing scores.
C2_AtMostFiveNonIncreasing ==
    req.kind \in {"recommend", "register"} =>
        /\ Len(top5) <= 5
        /\ NonIncreasing(top5)

C2_Witness ==
    /\ outcome = "scored"
    /\ Cardinality(Columns(users) \ PurchaseSet(users, req.user)) > 5
    /\ Len(top5) = 5
    /\ top5[1].score > top5[5].score

\* C3: a result of registerAndRecommend contains only items absent from
\* the new user's submitted purchase set, on the scored path and on the
\* popularity-fallback path.
C3_RegisterExcludesOwned ==
    (req.kind = "register" /\ Accepted) =>
        Items(top5) \cap Tags(Strip(req.purchases)) = {}

\* C4: a registration whose userID is empty after trimming, or is a userID
\* already in the store, gets the validation warning and leaves the store,
\* and the data every later request builds the matrix from, as they were.
C4_RejectedLeavesStore ==
    (req.kind = "register"
       /\ (Strip(req.user) = <<>> \/ Known(usersBefore, req.user))) =>
        /\ Rejected
        /\ top5 = <<>>
        /\ users = usersBefore
        /\ cache # NoData => cache = usersBefore

C4_Witness ==
    /\ req.kind = "register"
    /\ outcome = "warn_exists"
    /\ users \notin InitStores
    /\ req.user = users[Len(users)].userID

\* C5 as stated: a valid new userID with an empty purchase string is
\* accepted, stored with no history, and answered by the popularity
\* fallback.
C5_EmptyPurchasesAccepted ==
    (req.kind = "register"
       /\ Strip(req.user) # <<>>
       /\ ~Known(usersBefore, Strip(req.user))
       /\ req.purchases = <<>>) =>
        /\ outcome = "fallback"
        /\ users = Append(usersBefore, Row(Strip(req.user), <<>>))
        /\ IsPopularityTop(users, top5)

\* C5 amended: a registration with an empty (after trimming) purchase
\* string is rejected with the validation warning and the store is
\* unchanged; the popularity fallback, the top 5 columns by column sum over
\* all users and not filtered by ownership, is what an accepted new user
\* without any positive-similarity neighbour gets.
C5_EmptyPurchasesRejected ==
    /\ (req.kind = "register" /\ Strip(req.purchases) = <<>>) =>
          /\ outcome = "warn_missing"
          /\ top5 = <<>>
          /\ users = usersBefore
    /\ (req.kind = "register" /\ outcome = "fallback") =>
          /\ Inserted
          /\ \A i \in 1..Len(usersBefore) :
                PurchaseSet(users, Strip(req.user))
                  \cap Tags(usersBefore[i].previousPurchases) = {}
          /\ IsPopularityTop(users, top5)

C5_Witness ==
    /\ req.kind = "register"
    /\ req.user = <<"D">>
    /\ ~Known(usersBefore, <<"D">>)
    /\ req.purchases = <<>>
    /\ outcome = "warn_missing"

C7_WeightedScores ==
    /\ (req.kind = "recommend" /\ req.user = <<"A">> /\ users = StoreABC) =>
          /\ outcome = "scored"
          /\ {e.pos : e \in sim_scores(get_dummies(users), 1)} = {2, 3}
          /\ top5 = << [item  |-> <<"z">>,
                        score |-> Cosine({<<"x">>, <<"y">>}, {<<"y">>, <<"z">>})
                                  + Cosine({<<"x">>, <<"y">>},
                                           {<<"x">>, <<"y">>, <<"z">>})] >>
    /\ outcome = "scored" =>
          \A i \in 1..Len(top5) :
              top5[i].score = ExpectedScore(users, req.user, top5[i].item)

C7_Witness ==
    /\ req.kind = "recommend"
    /\ req.user = <<"A">>
    /\ users = StoreABC
    /\ outcome = "scored"
    /\ Len(top5) = 1

\* C8: resolving a token against a catalog of any size gives the
\* maximum-scoring key when its score is at least 70, "no match" when it
\* is below, and never an error.
C8_ResolveNeverErrors ==
    best_match # Pending =>
        \/ /\ best_match.result = "match"
           /\ \E i \in 1..Len(product_choices) :
                 /\ product_choices[i] = best_match.key
                 /\ scores[i] >= 70
                 /\ \A j \in 1..Len(product_choices) : scores[j] <= scores[i]
        \/ /\ best_match.result = "None"
           /\ \A j \in 1..Len(product_choices) : scores[j] < 70

\* C9: the data a request scores with is the committed store: the cache
\* never holds an older store, the frame read by the last request is the
\* store, and after a successful registration it has the new user's row.
C9_ReadAfterWrite ==
    /\ cache # NoData => cache = users
    /\ df # NoData => df = users
    /\ (req.kind = "register" /\ Accepted) =>
          /\ Inserted
          /\ df = users
          /\ df[Len(df)].userID = req.user

C9_Witness ==
    /\ req.kind = "recommend"
    /\ users \notin InitStores
    /\ req.user = users[Len(users)].userID
    /\ outcome = "scored"
    /\ df = users

\* C10: every registration ends either in a validation warning with the
\* store unchanged, or in exactly one new row, stored under the userID the
\* rebuilt matrices are looked up by, followed by a recommendation list.
C10_RegistrationTwoOutcomes ==
    req.kind = "register" =>
        \/ /\ Rejected
           /\ users = usersBefore
        \/ /\ Accepted
           /\ Inserted
           /\ users[Len(users)].userID = req.user

====
